---- MODULE Spec2Model ----
(***************************************************************************)
(* Model of droid-extevdev.c: the wired-accessory switch monitor of the    *)
(* PulseAudio droid modules.  One instance, single-threaded mainloop.      *)
(***************************************************************************)
EXTENDS Integers, Sequences, FiniteSets, TLC

(* ------------------------------ bounds -------------------------------- *)
\* largest number of /dev/input/event* candidates scandir returns
MaxCand == 2
\* largest number of events the kernel has buffered for one wake-up
MaxEvents == 5
\* largest number of successive pure calls kept in the call log
MaxCalls == 2

(* ---------------------- values returned by libevdev ------------------- *)
EAGAIN == 11
EIO == 5
ENODEV == 19
LIBEVDEV_READ_STATUS_SUCCESS == 0
LIBEVDEV_READ_STATUS_SYNC == 1

NULL == 0

(* --------------------------- port name tables ------------------------- *)
headphone_ports == << "output-wired_headphone" >>

headset_ports == << "output-wired_headset", "input-wired_headset" >>

\* names a card's port hashmap may hold; the speaker is never ours
RegistryNames == { "output-wired_headphone", "output-wired_headset",
                   "input-wired_headset", "output-speaker" }

SwitchPortNames == { "output-wired_headphone", "output-wired_headset",
                     "input-wired_headset" }

\* a registry entry: "absent" when pa_hashmap_get returns NULL
AvailValues == { "PA_AVAILABLE_UNKNOWN", "PA_AVAILABLE_NO", "PA_AVAILABLE_YES" }

(* --------------------- struct pa_droid_extevdev ----------------------- *)
\* pa_xnew0: every field zero
ZeroInstance == [ card |-> NULL, evdev_dev |-> NULL, event |-> NULL,
                  sw_headphone_insert |-> FALSE,
                  sw_microphone_insert |-> FALSE,
                  sw_lineout_insert |-> FALSE ]

\* assignment of an int to a one-bit bool bitfield
ToBool(v) == v # 0

SwitchOf(x) == [ headphone |-> x.sw_headphone_insert,
                 microphone |-> x.sw_microphone_insert,
                 lineout |-> x.sw_lineout_insert ]

(* -------------------------- notify_ports ------------------------------ *)
\* mutant: the microphone switch is not looked at
has_headphone_any(x) ==
    IF x.sw_headphone_insert \/ x.sw_lineout_insert
    THEN "PA_AVAILABLE_YES" ELSE "PA_AVAILABLE_NO"

has_headphone(x) ==
    IF (x.sw_headphone_insert \/ x.sw_lineout_insert)
       /\ ~ x.sw_microphone_insert
    THEN "PA_AVAILABLE_YES" ELSE "PA_AVAILABLE_NO"

\* mutant: a microphone switch alone is taken for a headset
has_headset_mic_only(x) ==
    IF x.sw_microphone_insert
    THEN "PA_AVAILABLE_YES" ELSE "PA_AVAILABLE_NO"

has_headset(x) ==
    IF (x.sw_headphone_insert \/ x.sw_lineout_insert)
       /\ x.sw_microphone_insert
    THEN "PA_AVAILABLE_YES" ELSE "PA_AVAILABLE_NO"

\* mutant: a write is skipped when the port already holds the value
RECURSIVE PortWritesIfChanged(_, _, _, _)
PortWritesIfChanged(names, k, reg, avail) ==
    IF k > Len(names) THEN << >>
    ELSE IF reg[names[k]] # "absent" /\ reg[names[k]] # avail
         THEN << [ port |-> names[k], available |-> avail ] >>
              \o PortWritesIfChanged(names, k + 1, reg, avail)
         ELSE PortWritesIfChanged(names, k + 1, reg, avail)

\* mutant: the loop gives up at the first name the card does not have
RECURSIVE PortWritesStopAtMissing(_, _, _, _)
PortWritesStopAtMissing(names, k, reg, avail) ==
    IF k > Len(names) THEN << >>
    ELSE IF reg[names[k]] # "absent"
         THEN << [ port |-> names[k], available |-> avail ] >>
              \o PortWritesStopAtMissing(names, k + 1, reg, avail)
         ELSE << >>

\* one loop of notify_ports: look each name up, write when found
RECURSIVE PortWrites(_, _, _, _)
PortWrites(names, k, reg, avail) ==
    IF k > Len(names) THEN << >>
    ELSE IF reg[names[k]] # "absent"
         THEN << [ port |-> names[k], available |-> avail ] >>
              \o PortWrites(names, k + 1, reg, avail)
         ELSE PortWrites(names, k + 1, reg, avail)

\* pa_device_port_set_available applied for each write, in order
RECURSIVE ApplyWrites(_, _)
ApplyWrites(reg, ws) ==
    IF ws = << >> THEN reg
    ELSE ApplyWrites([ reg EXCEPT ![Head(ws).port] = Head(ws).available ],
                     Tail(ws))

\* mutant: the headset names are written before the headphone names
NotifyWritesHeadsetFirst(x, reg) ==
    PortWrites(headset_ports, 1, reg, has_headset(x))
    \o PortWrites(headphone_ports, 1, reg, has_headphone(x))

\* the whole of notify_ports: the two decisions, the writes in call order
NotifyWrites(x, reg) ==
    PortWrites(headphone_ports, 1, reg, has_headphone(x))
    \o PortWrites(headset_ports, 1, reg, has_headset(x))

NotifyEval(x, reg) ==
    [ sw |-> SwitchOf(x),
      headphone |-> has_headphone(x),
      headset |-> has_headset(x),
      writes |-> NotifyWrites(x, reg) ]

NoEval == [ sw |-> [ headphone |-> FALSE, microphone |-> FALSE,
                     lineout |-> FALSE ],
            headphone |-> "none", headset |-> "none", writes |-> << >> ]

(* ------------------------ environment resources ----------------------- *)
\* open(2) hands out the lowest descriptor number not in use
NextFd(open) ==
    CHOOSE n \in 1..(Cardinality(open) + 1) :
        n \notin open /\ \A m \in 1..(n - 1) : m \in open

\* effect of one resource call on the descriptor table, the live decoding
\* contexts, the mainloop's io events and the faults seen so far
Effect(env, op, fd) ==
    CASE op = "open" -> [ env EXCEPT !.fds = @ \cup {fd} ]
      [] op = "close" ->
            IF fd \in env.fds
            THEN [ env EXCEPT !.fds = @ \ {fd} ]
            ELSE [ env EXCEPT !.faults = @ \cup {"close_bad_fd"} ]
      [] op = "libevdev_new" -> [ env EXCEPT !.ctxs = @ \cup {fd} ]
      [] op = "libevdev_free" ->
            IF fd \in env.ctxs
            THEN [ env EXCEPT !.ctxs = @ \ {fd} ]
            ELSE [ env EXCEPT !.faults = @ \cup {"free_bad_ctx"} ]
      [] op = "io_new" -> [ env EXCEPT !.io = @ \cup {fd} ]
      [] op = "io_free" ->
            IF fd \in env.io
            THEN [ env EXCEPT !.io = @ \ {fd} ]
            ELSE [ env EXCEPT !.faults = @ \cup {"io_free_bad_event"} ]
      [] OTHER -> env

RECURSIVE RunOps(_, _, _)
RunOps(env, ops, fd) ==
    IF ops = << >> THEN env
    ELSE RunOps(Effect(env, Head(ops), fd), Tail(ops), fd)

RECURSIVE Tagged(_, _, _)
Tagged(ops, cand, fd) ==
    IF ops = << >> THEN << >>
    ELSE << [ op |-> Head(ops), cand |-> cand, fd |-> fd ] >>
         \o Tagged(Tail(ops), cand, fd)

(* -------------------------- find_switch_evdev ------------------------- *)
\* what a candidate node does when probed
CandKinds == { "open_fails", "new_fails", "no_switch", "has_switch" }

RECURSIVE SeqsUpTo(_, _)
SeqsUpTo(S, n) ==
    IF n = 0 THEN { << >> }
    ELSE LET shorter == SeqsUpTo(S, n - 1)
         IN shorter \cup { Append(q, x) : q \in shorter, x \in S }

CandLists == SeqsUpTo(CandKinds, MaxCand)

\* mutant: the descriptor of a device without the switch is not closed
LoopBodyLeak(kind) ==
    CASE kind = "open_fails" -> << "open_failed" >>
      [] kind = "new_fails" -> << "open", "libevdev_new_failed", "close" >>
      [] kind = "no_switch" -> << "open", "libevdev_new", "libevdev_free" >>
      [] kind = "has_switch" -> << "open", "libevdev_new" >>

\* the resource calls of one loop iteration, by what the candidate does
LoopBody(kind) ==
    CASE kind = "open_fails" -> << "open_failed" >>
      [] kind = "new_fails" -> << "open", "libevdev_new_failed", "close" >>
      [] kind = "no_switch" ->
            << "open", "libevdev_new", "libevdev_free", "close" >>
      [] kind = "has_switch" -> << "open", "libevdev_new" >>

\* mutant: the loop does not stop at the first device with the switch
LoopBreaksNever(kind) == FALSE

\* libevdev_has_event_code(dev, EV_SW, SW_HEADPHONE_INSERT): ret = dev; break
LoopBreaks(kind) == kind = "has_switch"

SelInit == [ namelist |-> "none", cands |-> << >>, ndev |-> 0, i |-> 0,
             ret |-> NULL, log |-> << >> ]

(* ------------------------- initial switch values ---------------------- *)
SwitchCodes == { "SW_HEADPHONE_INSERT", "SW_MICROPHONE_INSERT",
                 "SW_LINEOUT_INSERT" }

\* the cached switch state of the selected device; it has the headphone
\* switch, the other two are optional
DevStates ==
    { d \in [ has : SUBSET SwitchCodes, value : [ SwitchCodes -> {0, 1} ] ] :
        /\ "SW_HEADPHONE_INSERT" \in d.has
        /\ \A c \in SwitchCodes : c \notin d.has => d.value[c] = 0 }

NoDev == [ has |-> {}, value |-> [ c \in SwitchCodes |-> 0 ] ]

\* libevdev_fetch_event_value: 1 and *value set, or 0 and *value untouched
libevdev_fetch_event_value(d, code, old) ==
    IF code \in d.has THEN [ rc |-> 1, value |-> d.value[code] ]
    ELSE [ rc |-> 0, value |-> old ]

\* mutant: the macro stores the local without looking at the result
INIT_SW_unchecked(f) == ToBool(f.value)

\* the INIT_SW macro, given what libevdev_fetch_event_value answered
INIT_SW(f) == IF f.rc # 0 THEN ToBool(f.value) ELSE FALSE

\* the three INIT_SW expansions share the local `value`
InitialSwitchValues(x, d) ==
    LET f1 == libevdev_fetch_event_value(d, "SW_HEADPHONE_INSERT", 0)
        f2 == libevdev_fetch_event_value(d, "SW_MICROPHONE_INSERT", f1.value)
        f3 == libevdev_fetch_event_value(d, "SW_LINEOUT_INSERT", f2.value)
    IN [ x EXCEPT !.sw_headphone_insert = INIT_SW(f1),
                  !.sw_microphone_insert = INIT_SW(f2),
                  !.sw_lineout_insert = INIT_SW(f3) ]

(* ------------------------ pa_droid_extevdev_free ---------------------- *)
\* mutant: teardown releases both fields without testing them
FreeOpsUnchecked(x) ==
    << [ op |-> "io_free", fd |-> x.event ],
       [ op |-> "libevdev_free", fd |-> x.evdev_dev ],
       [ op |-> "close", fd |-> x.evdev_dev ],
       [ op |-> "pa_xfree", fd |-> NULL ] >>

\* mutant: the descriptor is closed first, the io event freed last
FreeOpsCloseFirst(x) ==
    (IF x.evdev_dev # NULL
     THEN << [ op |-> "close", fd |-> x.evdev_dev ],
             [ op |-> "libevdev_free", fd |-> x.evdev_dev ] >>
     ELSE << >>)
    \o (IF x.event # NULL
        THEN << [ op |-> "io_free", fd |-> x.event ] >> ELSE << >>)
    \o << [ op |-> "pa_xfree", fd |-> NULL ] >>

\* mutant: the descriptor is never closed
FreeOpsNoClose(x) ==
    (IF x.event # NULL
     THEN << [ op |-> "io_free", fd |-> x.event ] >> ELSE << >>)
    \o (IF x.evdev_dev # NULL
        THEN << [ op |-> "libevdev_free", fd |-> x.evdev_dev ] >>
        ELSE << >>)
    \o << [ op |-> "pa_xfree", fd |-> NULL ] >>

\* the calls pa_droid_extevdev_free makes, in order
FreeOps(x) ==
    (IF x.event # NULL
     THEN << [ op |-> "io_free", fd |-> x.event ] >> ELSE << >>)
    \o (IF x.evdev_dev # NULL
        THEN << [ op |-> "libevdev_free", fd |-> x.evdev_dev ],
                [ op |-> "close", fd |-> x.evdev_dev ] >>
        ELSE << >>)
    \o << [ op |-> "pa_xfree", fd |-> NULL ] >>

RECURSIVE RunFree(_, _)
RunFree(env, ops) ==
    IF ops = << >> THEN env
    ELSE RunFree(Effect(env, Head(ops).op, Head(ops).fd), Tail(ops))

(* ------------------------------ evdev_cb ------------------------------ *)
\* the decoded events a wake-up can deliver
Events ==
    [ type : {"EV_SW"},
      code : SwitchCodes \cup {"SW_LID"},
      value : {0, 1} ]
    \cup [ type : {"EV_SYN"}, code : {"SYN_REPORT", "SYN_DROPPED"},
           value : {0} ]
    \cup [ type : {"EV_KEY"}, code : {"KEY_MEDIA"}, value : {1} ]

\* struct input_event ev before the first successful read
NoEvent == [ type |-> "unset", code |-> "unset", value |-> 0 ]

CbInit == [ flags |-> "unset", err |-> 0, ev |-> NoEvent, nev |-> 0 ]

HardErrors == { -EIO, -ENODEV }

\* what libevdev_next_event may answer: a negative errno at any time; with
\* the normal flag an event with SUCCESS, or SYNC when events were dropped;
\* with the sync flag the snapshot events, each with SYNC
ReadOutcomes(flags, nev) ==
    { [ err |-> e, ev |-> NoEvent ] : e \in {-EAGAIN} \cup HardErrors }
    \cup (IF nev < MaxEvents
          THEN { [ err |-> e, ev |-> v ] :
                   e \in (IF flags = "LIBEVDEV_READ_FLAG_NORMAL"
                          THEN { LIBEVDEV_READ_STATUS_SUCCESS,
                                 LIBEVDEV_READ_STATUS_SYNC }
                          ELSE { LIBEVDEV_READ_STATUS_SYNC }),
                   v \in Events }
          ELSE {})

\* mutant: a hard error is logged but the loop goes on to the event code
DispatchNoBreak(flags, err) ==
    IF err = -EAGAIN
    THEN IF flags = "LIBEVDEV_READ_FLAG_SYNC"
         THEN "continue_normal" ELSE "break"
    ELSE IF err = LIBEVDEV_READ_STATUS_SYNC
              /\ flags = "LIBEVDEV_READ_FLAG_NORMAL"
         THEN "continue_sync"
         ELSE "handle"

\* mutant: would-block while resynchronising does not put the flag back
DispatchSyncStuck(flags, err) ==
    IF err = -EAGAIN
    THEN IF flags = "LIBEVDEV_READ_FLAG_SYNC"
         THEN "continue_sync" ELSE "break"
    ELSE IF err = LIBEVDEV_READ_STATUS_SYNC
         THEN IF flags = "LIBEVDEV_READ_FLAG_NORMAL"
              THEN "continue_sync" ELSE "handle"
         ELSE IF err < 0 THEN "break" ELSE "handle"

\* mutant: resync-required is taken for an ordinary event
DispatchIgnoreSync(flags, err) ==
    IF err = -EAGAIN
    THEN IF flags = "LIBEVDEV_READ_FLAG_SYNC"
         THEN "continue_normal" ELSE "break"
    ELSE IF err < 0 THEN "break" ELSE "handle"

\* the if / else-if chain on err at the top of the loop body
Dispatch(flags, err) ==
    IF err = -EAGAIN
    THEN IF flags = "LIBEVDEV_READ_FLAG_SYNC"
         THEN "continue_normal" ELSE "break"
    ELSE IF err = LIBEVDEV_READ_STATUS_SYNC
         THEN IF flags = "LIBEVDEV_READ_FLAG_NORMAL"
              THEN "continue_sync" ELSE "handle"
         ELSE IF err < 0 THEN "break" ELSE "handle"

\* mutant: the microphone case has no break and runs into the lineout case
ApplySwitchFallthrough(x, ev) ==
    CASE ev.code = "SW_HEADPHONE_INSERT" ->
            [ x EXCEPT !.sw_headphone_insert = ToBool(ev.value) ]
      [] ev.code = "SW_MICROPHONE_INSERT" ->
            [ x EXCEPT !.sw_microphone_insert = ToBool(ev.value),
                       !.sw_lineout_insert = ToBool(ev.value) ]
      [] ev.code = "SW_LINEOUT_INSERT" ->
            [ x EXCEPT !.sw_lineout_insert = ToBool(ev.value) ]
      [] OTHER -> x

\* the switch statement on ev.code for an EV_SW event
ApplySwitch(x, ev) ==
    CASE ev.code = "SW_HEADPHONE_INSERT" ->
            [ x EXCEPT !.sw_headphone_insert = ToBool(ev.value) ]
      [] ev.code = "SW_MICROPHONE_INSERT" ->
            [ x EXCEPT !.sw_microphone_insert = ToBool(ev.value) ]
      [] ev.code = "SW_LINEOUT_INSERT" ->
            [ x EXCEPT !.sw_lineout_insert = ToBool(ev.value) ]
      [] OTHER -> x

\* ev.type == EV_SYN && ev.code == SYN_REPORT
IsReport(ev) == ev.type = "EV_SYN" /\ ev.code = "SYN_REPORT"

\* mutant: availability is pushed after every switch event as well
HandleEventEager(x, ev) ==
    IF ev.type = "EV_SW"
    THEN [ u |-> ApplySwitch(x, ev), notify |-> TRUE ]
    ELSE [ u |-> x, notify |-> IsReport(ev) ]

\* mutant: every EV_SYN event is taken for the report-complete marker
HandleEventAnySyn(x, ev) ==
    IF ev.type = "EV_SW"
    THEN [ u |-> ApplySwitch(x, ev), notify |-> FALSE ]
    ELSE [ u |-> x, notify |-> ev.type = "EV_SYN" ]

\* the code after the err chain: ev now contains the current event
HandleEvent(x, ev) ==
    IF ev.type = "EV_SW"
    THEN [ u |-> ApplySwitch(x, ev), notify |-> FALSE ]
    ELSE IF IsReport(ev)
         THEN [ u |-> x, notify |-> TRUE ]
         ELSE [ u |-> x, notify |-> FALSE ]

(* ------------------------------- state -------------------------------- *)
VARIABLES
    pc,          \* where the program is
    u,           \* struct pa_droid_extevdev
    inst,        \* the allocation holding u: "none", "live", "freed"
    ports,       \* card->ports: name -> availability, or "absent"
    env,         \* descriptors, decoding contexts, io events, faults
    sel,         \* locals of find_switch_evdev and the calls it made
    cb,          \* locals of evdev_cb
    initDev,     \* the cached switch values read at creation
    lastEval,    \* the most recent evaluation made by notify_ports
    opNotifies,  \* notify_ports calls made by the running entry point
    cbRan,       \* evdev_cb has been entered at least once
    scen,        \* how much of ResyncScript this drain has read so far
    freeLog,     \* the calls made by pa_droid_extevdev_free
    result,      \* what pa_droid_extevdev_new returned
    calls,       \* successive notify_ports calls, for the pure checks
    prevAbort    \* the last finished drain broke on a hard error while the
                 \* sync flag was set, and nothing has been read since

vars == << pc, u, inst, ports, env, sel, cb, initDev, lastEval, opNotifies,
           cbRan, scen, freeLog, result, calls, prevAbort >>

\* the drain of the resync-recovery example
ResyncScript ==
    << [ err |-> LIBEVDEV_READ_STATUS_SUCCESS,
         ev |-> [ type |-> "EV_SW", code |-> "SW_HEADPHONE_INSERT",
                  value |-> 1 ] ],
       [ err |-> LIBEVDEV_READ_STATUS_SYNC,
         ev |-> [ type |-> "EV_SYN", code |-> "SYN_DROPPED", value |-> 0 ] ],
       [ err |-> LIBEVDEV_READ_STATUS_SYNC,
         ev |-> [ type |-> "EV_SW", code |-> "SW_HEADPHONE_INSERT",
                  value |-> 1 ] ],
       [ err |-> LIBEVDEV_READ_STATUS_SYNC,
         ev |-> [ type |-> "EV_SW", code |-> "SW_MICROPHONE_INSERT",
                  value |-> 1 ] ],
       [ err |-> LIBEVDEV_READ_STATUS_SYNC,
         ev |-> [ type |-> "EV_SYN", code |-> "SYN_REPORT", value |-> 0 ] ],
       [ err |-> -EAGAIN, ev |-> NoEvent ],
       [ err |-> -EAGAIN, ev |-> NoEvent ] >>

ScenNext(k, r) ==
    IF k >= 0 /\ k < Len(ResyncScript) /\ ResyncScript[k + 1] = r
    THEN k + 1 ELSE -1

\* registries a card can start with: any of our ports may be missing
InitRegistries ==
    { [ n \in RegistryNames |->
          IF n \in present \/ n \notin SwitchPortNames
          THEN "PA_AVAILABLE_UNKNOWN" ELSE "absent" ] :
        present \in SUBSET SwitchPortNames }

AllRegistries ==
    { r \in [ RegistryNames -> AvailValues \cup {"absent"} ] :
        r["output-speaker"] = "PA_AVAILABLE_UNKNOWN" }

EnvInit == [ fds |-> {}, ctxs |-> {}, io |-> {}, faults |-> {} ]

Init ==
    /\ pc = "start"
    /\ u = ZeroInstance
    /\ inst = "none"
    /\ ports \in InitRegistries
    /\ env = EnvInit
    /\ sel = SelInit
    /\ cb = CbInit
    /\ initDev = NoDev
    /\ lastEval = NoEval
    /\ opNotifies = 0
    /\ cbRan = FALSE
    /\ scen = -1
    /\ freeLog = << >>
    /\ result = "pending"
    /\ calls = << >>
    /\ prevAbort = FALSE

(* ----------------------- pa_droid_extevdev_new ------------------------ *)
\* pa_xnew0, the two asserts (core and card are valid), u->card = card
NewBegin ==
    /\ pc = "start"
    /\ u' = [ ZeroInstance EXCEPT !.card = 1 ]
    /\ inst' = "live"
    /\ pc' = "find_scandir"
    /\ UNCHANGED << ports, env, sel, cb, initDev, lastEval, opNotifies,
                    cbRan, scen, freeLog, result, calls,
                    prevAbort >>

\* scandir: -1 with namelist left unset, or the sorted candidates
FindScandir ==
    /\ pc = "find_scandir"
    /\ \/ sel' = [ SelInit EXCEPT !.namelist = "uninit", !.ndev = -1 ]
       \/ \E cl \in CandLists :
            sel' = [ SelInit EXCEPT !.namelist = "alloc", !.cands = cl,
                                    !.ndev = Len(cl) ]
    /\ pc' = "find_loop"
    /\ UNCHANGED << u, inst, ports, env, cb, initDev, lastEval, opNotifies,
                    cbRan, scen, freeLog, result, calls,
                    prevAbort >>

\* one iteration of the candidate loop
FindIter ==
    /\ pc = "find_loop"
    /\ sel.i < sel.ndev
    /\ LET kind == sel.cands[sel.i + 1]
           fd == NextFd(env.fds)
           ops == LoopBody(kind)
           found == kind = "has_switch"
           stop == LoopBreaks(kind)
       IN /\ env' = RunOps(env, ops, fd)
          /\ sel' = [ sel EXCEPT
                        !.log = @ \o Tagged(ops, sel.i + 1, fd),
                        !.ret = IF found THEN fd ELSE @,
                        !.i = IF stop THEN @ ELSE @ + 1 ]
          /\ pc' = IF stop THEN "find_free" ELSE "find_loop"
    /\ UNCHANGED << u, inst, ports, cb, initDev, lastEval, opNotifies,
                    cbRan, scen, freeLog, result, calls,
                    prevAbort >>

\* the two free loops after the candidate loop, then return ret.  With
\* ndev = -1 namelist was never set: free() gets an indeterminate pointer,
\* which may happen to be null, may abort, or may release something else
FindFree ==
    /\ \/ pc = "find_free"
       \/ pc = "find_loop" /\ ~ (sel.i < sel.ndev)
    /\ \/ /\ sel.namelist = "alloc"
          /\ sel' = [ sel EXCEPT !.namelist = "freed" ]
          /\ pc' = "find_ret"
          /\ env' = env
       \/ /\ sel.namelist = "uninit"
          /\ \/ /\ pc' = "find_ret"
                /\ env' = env
                /\ sel' = sel
             \/ /\ pc' = "find_ret"
                /\ env' = [ env EXCEPT
                              !.faults = @ \cup {"free_unset_pointer"} ]
                /\ sel' = sel
             \/ /\ pc' = "crashed"
                /\ env' = [ env EXCEPT
                              !.faults = @ \cup {"free_unset_pointer"} ]
                /\ sel' = sel
    /\ UNCHANGED << u, inst, ports, cb, initDev, lastEval, opNotifies,
                    cbRan, scen, freeLog, result, calls,
                    prevAbort >>

\* u->evdev_dev = find_switch_evdev() gave NULL: goto fail
NewFail ==
    /\ pc = "find_ret"
    /\ sel.ret = NULL
    /\ LET x == [ u EXCEPT !.evdev_dev = sel.ret ]
           ops == FreeOps(x)
       IN /\ u' = x
          /\ env' = RunFree(env, ops)
          /\ freeLog' = ops
    /\ inst' = "freed"
    /\ result' = "NULL"
    /\ pc' = "new_ret"
    /\ UNCHANGED << ports, sel, cb, initDev, lastEval, opNotifies, cbRan,
                    scen, calls,
                    prevAbort >>

\* mutant: the io_new call is left out
NewRegisterNoIoNew ==
    /\ pc = "find_ret"
    /\ sel.ret # NULL
    /\ u' = [ u EXCEPT !.evdev_dev = sel.ret ]
    /\ pc' = "new_sync"
    /\ UNCHANGED << inst, ports, env, sel, cb, initDev, lastEval, opNotifies,
                    cbRan, scen, freeLog, result, calls,
                    prevAbort >>

\* a device was found: io_new on its descriptor
NewRegister ==
    /\ pc = "find_ret"
    /\ sel.ret # NULL
    /\ u' = [ u EXCEPT !.evdev_dev = sel.ret, !.event = sel.ret ]
    /\ env' = Effect(env, "io_new", sel.ret)
    /\ pc' = "new_sync"
    /\ UNCHANGED << inst, ports, sel, cb, initDev, lastEval, opNotifies,
                    cbRan, scen, freeLog, result, calls,
                    prevAbort >>

\* read_initial_switch_values, then return u
NewSync ==
    /\ pc = "new_sync"
    /\ \E d \in DevStates :
         LET x == InitialSwitchValues(u, d)
             e == NotifyEval(x, ports)
         IN /\ u' = x
            /\ initDev' = d
            /\ lastEval' = e
            /\ ports' = ApplyWrites(ports, e.writes)
    /\ opNotifies' = opNotifies + 1
    /\ result' = "instance"
    /\ pc' = "new_ret"
    /\ UNCHANGED << inst, env, sel, cb, cbRan, scen, freeLog, calls,
                    prevAbort >>

\* control goes back to the caller; the frames of the call are gone
NewReturn ==
    /\ pc = "new_ret"
    /\ pc' = IF result = "instance" THEN "idle" ELSE "done"
    /\ sel' = SelInit
    /\ initDev' = NoDev
    /\ opNotifies' = 0
    /\ UNCHANGED << u, inst, ports, env, cb, lastEval, cbRan, scen, freeLog,
                    result, calls,
                    prevAbort >>

(* ------------------------------ evdev_cb ------------------------------ *)
\* mutant: the read flag outlives the call, as a field of u would
CbEnterKeepsFlags ==
    /\ pc = "idle"
    /\ u.event \in env.io
    /\ cb' = [ CbInit EXCEPT !.flags = IF prevAbort
                                       THEN "LIBEVDEV_READ_FLAG_SYNC"
                                       ELSE "LIBEVDEV_READ_FLAG_NORMAL" ]
    /\ cbRan' = TRUE
    /\ opNotifies' = 0
    /\ scen' = 0
    /\ pc' = "cb_loop"
    /\ UNCHANGED << u, inst, ports, env, sel, initDev, lastEval, freeLog,
                    result, calls, prevAbort >>

\* the mainloop finds the descriptor readable and calls evdev_cb
CbEnter ==
    /\ pc = "idle"
    /\ u.event \in env.io
    /\ cb' = [ CbInit EXCEPT !.flags = "LIBEVDEV_READ_FLAG_NORMAL" ]
    /\ cbRan' = TRUE
    /\ opNotifies' = 0
    /\ scen' = 0
    /\ pc' = "cb_loop"
    /\ UNCHANGED << u, inst, ports, env, sel, initDev, lastEval, freeLog,
                    result, calls,
                    prevAbort >>

\* one iteration of while (1)
CbIter ==
    /\ pc = "cb_loop"
    /\ \E r \in ReadOutcomes(cb.flags, cb.nev) :
         LET ev1 == IF r.err < 0 THEN cb.ev ELSE r.ev
             d == Dispatch(cb.flags, r.err)
             h == IF d = "handle" THEN HandleEvent(u, ev1)
                  ELSE [ u |-> u, notify |-> FALSE ]
             e == NotifyEval(h.u, ports)
         IN /\ cb' = [ flags |-> CASE d = "continue_normal" ->
                                        "LIBEVDEV_READ_FLAG_NORMAL"
                                   [] d = "continue_sync" ->
                                        "LIBEVDEV_READ_FLAG_SYNC"
                                   [] OTHER -> cb.flags,
                       err |-> r.err,
                       ev |-> ev1,
                       nev |-> IF r.err < 0 THEN cb.nev ELSE cb.nev + 1 ]
            /\ u' = h.u
            /\ IF h.notify
               THEN /\ lastEval' = e
                    /\ ports' = ApplyWrites(ports, e.writes)
                    /\ opNotifies' = opNotifies + 1
               ELSE UNCHANGED << lastEval, ports, opNotifies >>
            /\ pc' = IF d = "break" THEN "cb_ret" ELSE "cb_loop"
            /\ scen' = ScenNext(scen, r)
    /\ prevAbort' = FALSE
    /\ UNCHANGED << inst, env, sel, initDev, cbRan, freeLog, result, calls >>

\* evdev_cb returns to the mainloop
CbReturn ==
    /\ pc = "cb_ret"
    /\ pc' = "idle"
    /\ cb' = CbInit
    /\ opNotifies' = 0
    /\ scen' = -1
    /\ prevAbort' = (cb.err < 0 /\ cb.err # -EAGAIN
                     /\ cb.flags = "LIBEVDEV_READ_FLAG_SYNC")
    /\ UNCHANGED << u, inst, ports, env, sel, initDev, lastEval, cbRan,
                    freeLog, result, calls >>

(* ------------------------ pa_droid_extevdev_free ---------------------- *)
\* the owner destroys the monitor between two mainloop dispatches
Free ==
    /\ pc = "idle"
    /\ LET ops == FreeOps(u)
       IN /\ env' = RunFree(env, ops)
          /\ freeLog' = ops
    /\ inst' = "freed"
    /\ pc' = "done"
    /\ UNCHANGED << u, ports, sel, cb, initDev, lastEval, opNotifies, cbRan,
                    scen, result, calls,
                    prevAbort >>

Next ==
    \/ NewBegin
    \/ FindScandir
    \/ FindIter
    \/ FindFree
    \/ NewFail
    \/ NewRegister
    \/ NewSync
    \/ NewReturn
    \/ CbEnter
    \/ CbIter
    \/ CbReturn
    \/ Free

Spec == Init /\ [][Next]_vars

(* --------------- notify_ports and the switch, on their own ------------ *)
AllInstances ==
    { [ ZeroInstance EXCEPT !.card = 1,
                            !.sw_headphone_insert = h,
                            !.sw_microphone_insert = m,
                            !.sw_lineout_insert = l ] :
        h \in BOOLEAN, m \in BOOLEAN, l \in BOOLEAN }

InitNotify ==
    /\ pc = "pure"
    /\ u \in AllInstances
    /\ inst = "live"
    /\ ports \in AllRegistries
    /\ env = EnvInit
    /\ sel = SelInit
    /\ cb = CbInit
    /\ initDev = NoDev
    /\ lastEval = NoEval
    /\ opNotifies = 0
    /\ cbRan = FALSE
    /\ scen = -1
    /\ freeLog = << >>
    /\ result = "pending"
    /\ calls = << >>
    /\ prevAbort = FALSE

\* notify_ports(u)
PureNotify ==
    /\ pc = "pure"
    /\ Len(calls) < MaxCalls
    /\ LET e == NotifyEval(u, ports)
           after == ApplyWrites(ports, e.writes)
       IN /\ lastEval' = e
          /\ ports' = after
          /\ calls' = Append(calls, [ sw |-> e.sw, before |-> ports,
                                      writes |-> e.writes, after |-> after ])
    /\ UNCHANGED << pc, u, inst, env, sel, cb, initDev, opNotifies, cbRan,
                    scen, freeLog, result,
                    prevAbort >>

\* a switch event is applied between two calls
PureSwitch ==
    /\ pc = "pure"
    /\ Len(calls) < MaxCalls
    /\ \E ev \in Events :
         /\ ev.type = "EV_SW"
         /\ u' = HandleEvent(u, ev).u
         /\ u' # u
    /\ UNCHANGED << pc, inst, ports, env, sel, cb, initDev, lastEval,
                    opNotifies, cbRan, scen, freeLog, result, calls,
                    prevAbort >>

NextNotify == PureNotify \/ PureSwitch

SpecNotify == InitNotify /\ [][NextNotify]_vars

(* ============================ properties ============================== *)
YES == "PA_AVAILABLE_YES"
NO == "PA_AVAILABLE_NO"

InWrites(ws, names) == { k \in 1..Len(ws) : \E j \in 1..Len(names) :
                                              ws[k].port = names[j] }

\* C1: for each of the 8 switch combinations the evaluation made by
\* notify_ports gives headphone = (headphone or lineout) and not microphone,
\* headset = (headphone or lineout) and microphone; the two are never both
\* available, and the microphone switch alone gives neither.  The writes of
\* that call carry exactly these two decisions.
C1_AvailabilityPolicy ==
    lastEval # NoEval =>
      LET s == lastEval.sw
      IN /\ lastEval.headphone \in {YES, NO}
         /\ lastEval.headset \in {YES, NO}
         /\ (lastEval.headphone = YES)
              <=> ((s.headphone \/ s.lineout) /\ ~ s.microphone)
         /\ (lastEval.headset = YES)
              <=> ((s.headphone \/ s.lineout) /\ s.microphone)
         /\ ~ (lastEval.headphone = YES /\ lastEval.headset = YES)
         /\ (s.microphone /\ ~ s.headphone /\ ~ s.lineout)
              => (lastEval.headphone = NO /\ lastEval.headset = NO)
         /\ \A k \in InWrites(lastEval.writes, headphone_ports) :
              lastEval.writes[k].available = lastEval.headphone
         /\ \A k \in InWrites(lastEval.writes, headset_ports) :
              lastEval.writes[k].available = lastEval.headset

C1_Witness ==
    /\ pc = "pure"
    /\ lastEval # NoEval
    /\ lastEval.sw = [ headphone |-> FALSE, microphone |-> TRUE,
                       lineout |-> FALSE ]
    /\ Len(lastEval.writes) = 3
    /\ lastEval.headphone = NO
    /\ lastEval.headset = NO

\* the boolean a switch event with value v stands for
Inserted(v) == v = 1

\* C2: a drain that reads headphone=1, then resync-required, then the
\* snapshot headphone=1, microphone=1, report-complete, then would-block
\* (which ends the resync) and would-block again (which ends the drain)
\* finishes with headphone_insert and microphone_insert set and exactly one
\* evaluation, made at the report-complete marker.  Any snapshot event read
\* with the sync flag sets the boolean of its switch code just as an event
\* read with the normal flag does.
C2_ScenarioEnd ==
    (pc = "cb_ret" /\ scen = Len(ResyncScript)) =>
        /\ u.sw_headphone_insert
        /\ u.sw_microphone_insert
        /\ opNotifies = 1
        /\ lastEval.sw = SwitchOf(u)
        /\ IsReport(cb.ev)

C2_SnapshotStep ==
    (/\ pc = "cb_loop"
     /\ cb.flags = "LIBEVDEV_READ_FLAG_SYNC"
     /\ cb'.nev = cb.nev + 1
     /\ cb'.err = LIBEVDEV_READ_STATUS_SYNC
     /\ cb'.ev.type = "EV_SW") =>
        /\ cb'.flags = "LIBEVDEV_READ_FLAG_SYNC"
        /\ u'.sw_headphone_insert =
             IF cb'.ev.code = "SW_HEADPHONE_INSERT"
             THEN Inserted(cb'.ev.value) ELSE u.sw_headphone_insert
        /\ u'.sw_microphone_insert =
             IF cb'.ev.code = "SW_MICROPHONE_INSERT"
             THEN Inserted(cb'.ev.value) ELSE u.sw_microphone_insert
        /\ u'.sw_lineout_insert =
             IF cb'.ev.code = "SW_LINEOUT_INSERT"
             THEN Inserted(cb'.ev.value) ELSE u.sw_lineout_insert

C2_ResyncRecovery == [] C2_ScenarioEnd /\ [][C2_SnapshotStep]_vars

C2_Witness ==
    /\ pc = "cb_ret"
    /\ scen = Len(ResyncScript)
    /\ opNotifies = 1
    /\ lastEval.headset = YES

\* what the cached state of the device says about one switch
CachedOn(d, code) == code \in d.has /\ d.value[code] = 1

CachedSwitch(d) ==
    [ headphone |-> CachedOn(d, "SW_HEADPHONE_INSERT"),
      microphone |-> CachedOn(d, "SW_MICROPHONE_INSERT"),
      lineout |-> CachedOn(d, "SW_LINEOUT_INSERT") ]

RegistryShows(e) ==
    /\ \A j \in 1..Len(headphone_ports) :
         ports[headphone_ports[j]] \in {"absent", e.headphone}
    /\ \A j \in 1..Len(headset_ports) :
         ports[headset_ports[j]] \in {"absent", e.headset}

\* C3: when pa_droid_extevdev_new succeeds it has made exactly one
\* evaluation with port notification, no evdev_cb has run before it, and the
\* evaluation used the switch state where each boolean is the device's
\* cached value, or false for a code the device does not have.
C3_InitialSync ==
    /\ (pc = "new_ret" /\ result = "instance") =>
          /\ opNotifies = 1
          /\ ~ cbRan
          /\ SwitchOf(u) = CachedSwitch(initDev)
          /\ lastEval.sw = CachedSwitch(initDev)
          /\ RegistryShows(lastEval)
    /\ cbRan => (result = "instance" /\ lastEval # NoEval)
    /\ pc \in {"start", "find_scandir", "find_loop", "find_free",
               "find_ret", "new_sync"} => (opNotifies = 0 /\ ~ cbRan)

C3_Witness ==
    /\ pc = "new_ret"
    /\ result = "instance"
    /\ opNotifies = 1
    /\ "SW_MICROPHONE_INSERT" \notin initDev.has
    /\ CachedOn(initDev, "SW_HEADPHONE_INSERT")
    /\ ~ u.sw_microphone_insert
    /\ u.sw_headphone_insert

\* the device of the initial-sync example: microphone-insert cached as 1,
\* the other two 0 or not supported
MicrophoneOnly(d) ==
    /\ CachedOn(d, "SW_MICROPHONE_INSERT")
    /\ ~ CachedOn(d, "SW_HEADPHONE_INSERT")
    /\ ~ CachedOn(d, "SW_LINEOUT_INSERT")

\* C4 as stated: with only microphone-insert cached as 1, creation makes one
\* immediate evaluation with headset available, before any readiness
\* notification.
C4_Original ==
    (pc = "new_ret" /\ result = "instance" /\ MicrophoneOnly(initDev)) =>
        /\ opNotifies = 1
        /\ ~ cbRan
        /\ lastEval.headset = YES

\* C4: with only microphone-insert cached as 1, creation makes one
\* immediate evaluation, before any readiness notification, and it finds
\* neither the headset nor the headphone available.
C4_InitialSyncMicrophoneOnly ==
    (pc = "new_ret" /\ result = "instance" /\ MicrophoneOnly(initDev)) =>
        /\ opNotifies = 1
        /\ ~ cbRan
        /\ lastEval.sw = [ headphone |-> FALSE, microphone |-> TRUE,
                           lineout |-> FALSE ]
        /\ lastEval.headset = NO
        /\ lastEval.headphone = NO
        /\ \A n \in SwitchPortNames : ports[n] \in {"absent", NO}

C4_Witness ==
    /\ pc = "new_ret"
    /\ result = "instance"
    /\ MicrophoneOnly(initDev)
    /\ "SW_LINEOUT_INSERT" \notin initDev.has
    /\ ports["output-wired_headset"] = NO

(* ------------------------------ selector ------------------------------ *)
Qualifying == { k \in 1..Len(sel.cands) : sel.cands[k] = "has_switch" }

Least(S) == CHOOSE k \in S : \A j \in S : k <= j

\* the candidates the loop has made any call for, in call order
Probed == { sel.log[k].cand : k \in 1..Len(sel.log) }

CallsFor(c, op) ==
    Cardinality({ k \in 1..Len(sel.log) :
                    sel.log[k].cand = c /\ sel.log[k].op = op })

FindReturned == pc = "find_ret" /\ sel.namelist = "freed"

\* C5: find_switch_evdev probes the candidates in enumeration order and
\* returns the first one that opens, yields a decoding context and has the
\* headphone switch; a later qualifying candidate is never returned in place
\* of an earlier one and nothing after the winner is opened or probed.
C5_SelectorDeterminism ==
    FindReturned =>
      /\ \A k \in 1..(Len(sel.log) - 1) :
           sel.log[k].cand <= sel.log[k + 1].cand
      /\ IF Qualifying = {}
         THEN /\ sel.ret = NULL
              /\ Probed = 1..sel.ndev
         ELSE LET w == Least(Qualifying)
              IN /\ sel.ret # NULL
                 /\ \E k \in 1..Len(sel.log) :
                      /\ sel.log[k].op = "libevdev_new"
                      /\ sel.log[k].cand = w
                      /\ sel.log[k].fd = sel.ret
                 /\ Probed = 1..w
                 /\ sel.i + 1 = w

C5_Witness ==
    /\ FindReturned
    /\ Cardinality(Qualifying) >= 2
    /\ sel.ret # NULL
    /\ Probed = {1}

\* C6: whatever the candidates do, when find_switch_evdev returns the
\* descriptors it left open are the winner's alone, or none when it returns
\* NULL; each losing candidate that opened was closed exactly once and its
\* decoding context, if one was made, released exactly once; a failing
\* candidate never ends the enumeration.
C6_SelectorResources ==
    FindReturned =>
      /\ env.fds = (IF sel.ret = NULL THEN {} ELSE {sel.ret})
      /\ env.ctxs = (IF sel.ret = NULL THEN {} ELSE {sel.ret})
      /\ env.faults = {}
      /\ \A c \in Probed :
           LET loses == sel.cands[c] # "has_switch"
               opens == sel.cands[c] # "open_fails"
               makes == sel.cands[c] \in {"no_switch", "has_switch"}
           IN /\ CallsFor(c, "open") = (IF opens THEN 1 ELSE 0)
              /\ CallsFor(c, "libevdev_new") = (IF makes THEN 1 ELSE 0)
              /\ CallsFor(c, "close") = (IF opens /\ loses THEN 1 ELSE 0)
              /\ CallsFor(c, "libevdev_free")
                   = (IF makes /\ loses THEN 1 ELSE 0)
      /\ \A c \in 1..sel.ndev :
           (\A j \in 1..c : sel.cands[j] # "has_switch") => c \in Probed

C6_Witness ==
    /\ FindReturned
    /\ sel.ndev = 2
    /\ sel.cands[1] = "no_switch"
    /\ sel.cands[2] = "has_switch"
    /\ sel.ret # NULL
    /\ CallsFor(1, "close") = 1

(* ------------------------------ creation ------------------------------ *)
\* C7: when the selector returns NULL, pa_droid_extevdev_new returns no
\* instance; the teardown it runs unregisters nothing, releases no decoding
\* context and closes no descriptor; no callback was registered, no
\* evaluation ran and no port was written.
C7_FailedCreationTeardown ==
    /\ (pc = "new_ret" /\ sel.ret = NULL) =>
          /\ result = "NULL"
          /\ inst = "freed"
          /\ \A k \in 1..Len(freeLog) :
               freeLog[k].op \notin {"io_free", "libevdev_free", "close"}
          /\ env.io = {} /\ env.fds = {} /\ env.ctxs = {}
          /\ env.faults \cap {"close_bad_fd", "free_bad_ctx",
                              "io_free_bad_event"} = {}
          /\ u.event = NULL /\ u.evdev_dev = NULL
          /\ opNotifies = 0
          /\ lastEval = NoEval
          /\ ~ cbRan
          /\ \A n \in RegistryNames :
               ports[n] \in {"absent", "PA_AVAILABLE_UNKNOWN"}
    /\ result = "NULL" => pc \in {"new_ret", "done"}

C7_Witness ==
    /\ pc = "new_ret"
    /\ result = "NULL"
    /\ sel.ndev = 2
    /\ sel.ret = NULL
    /\ Len(freeLog) = 1
    /\ inst = "freed"

(* ------------------------------ hard error ---------------------------- *)
IsHardError(e) == e < 0 /\ e # -EAGAIN

C8_ErrorStep ==
    (pc = "cb_loop" /\ IsHardError(cb'.err)) =>
        /\ pc' = "cb_ret"
        /\ u' = u
        /\ ports' = ports
        /\ lastEval' = lastEval
        /\ opNotifies' = opNotifies
        /\ env' = env
        /\ inst' = inst
        /\ cb'.ev = cb.ev
        /\ cb'.nev = cb.nev

C8_AfterError ==
    /\ (pc = "cb_ret" /\ IsHardError(cb.err)) =>
          /\ inst = "live"
          /\ u.event # NULL /\ u.event \in env.io
          /\ u.evdev_dev \in env.fds /\ u.evdev_dev \in env.ctxs
    /\ pc = "idle" =>
          /\ inst = "live"
          /\ u.event # NULL /\ u.event \in env.io
          /\ u.evdev_dev \in env.fds /\ u.evdev_dev \in env.ctxs

C8_ReturnStep == pc = "cb_ret" => pc' = "idle"

\* C8: a hard error from the reader, with either flag, ends the drain at
\* once: no event is applied, the switch state and the registry stay as they
\* were; the monitor keeps its io event and its open device, and the
\* mainloop can call evdev_cb again.
C8_HardError ==
    [] C8_AfterError /\ [][C8_ErrorStep /\ C8_ReturnStep]_vars

C8_Witness ==
    /\ pc = "cb_ret"
    /\ IsHardError(cb.err)
    /\ cb.flags = "LIBEVDEV_READ_FLAG_SYNC"
    /\ cb.ev.type = "EV_SW"
    /\ u.event \in env.io

(* -------------------------- enumeration failure ----------------------- *)
\* C9: when the directory cannot be enumerated the selector acts as with no
\* candidates: it opens nothing, releases nothing that was not allocated and
\* returns NULL, and creation ends with no instance.
C9_EnumerationFailure ==
    sel.ndev = -1 =>
      /\ pc # "crashed"
      /\ "free_unset_pointer" \notin env.faults
      /\ sel.log = << >>
      /\ env.fds = {}
      /\ sel.ret = NULL
      /\ pc = "new_ret" => result = "NULL"

(* ------------------------------ idempotence --------------------------- *)
\* C10: two successive notify_ports calls with the same switch state, the
\* second starting from the registry the first left, make the same writes
\* in the same order and leave the registry as the first left it.
C10_NotifierIdempotence ==
    \A k \in 1..(Len(calls) - 1) :
      (calls[k + 1].sw = calls[k].sw /\ calls[k + 1].before = calls[k].after)
        => /\ calls[k + 1].writes = calls[k].writes
           /\ calls[k + 1].after = calls[k].after

C10_Witness ==
    /\ Len(calls) >= 2
    /\ calls[2].sw = calls[1].sw
    /\ calls[2].before = calls[1].after
    /\ Len(calls[1].writes) = 3
    /\ calls[1].before # calls[1].after

(* ---------------------------- drain termination ----------------------- *)
\* the mainloop runs evdev_cb to its end: an iteration that can be taken is
\* taken
SpecLive == Init /\ [][Next]_vars /\ WF_vars(CbIter)

C11_ExitStep ==
    (pc = "cb_loop" /\ pc' # "cb_loop") =>
        /\ pc' = "cb_ret"
        /\ \/ cb'.err = -EAGAIN /\ cb.flags = "LIBEVDEV_READ_FLAG_NORMAL"
           \/ IsHardError(cb'.err)

C11_WouldBlockInSync ==
    (/\ pc = "cb_loop"
     /\ cb.flags = "LIBEVDEV_READ_FLAG_SYNC"
     /\ cb'.err = -EAGAIN) =>
        /\ pc' = "cb_loop"
        /\ cb'.flags = "LIBEVDEV_READ_FLAG_NORMAL"

\* C11: when the reader has a bounded number of buffered events and then
\* reports would-block, every drain ends; the loop is left only on
\* would-block read with the normal flag or on a hard error, and would-block
\* read with the sync flag puts the flag back to normal and reads on.
C11_DrainTermination ==
    /\ (pc = "cb_loop") ~> (pc = "cb_ret")
    /\ [][C11_ExitStep /\ C11_WouldBlockInSync]_vars

C11_Witness ==
    /\ pc = "cb_ret"
    /\ cb.err = -EAGAIN
    /\ cb.flags = "LIBEVDEV_READ_FLAG_NORMAL"
    /\ cb.nev = MaxEvents
    /\ cb.ev.type = "EV_SW"

(* --------------------------- read-mode transitions -------------------- *)
\* an iteration whose read delivered an event together with status st
ReadStep(st) ==
    /\ pc = "cb_loop"
    /\ cb'.nev = cb.nev + 1
    /\ cb'.err = st

SwitchAfter(old, ev) ==
    [ headphone |-> IF ev.type = "EV_SW" /\ ev.code = "SW_HEADPHONE_INSERT"
                    THEN Inserted(ev.value) ELSE old.headphone,
      microphone |-> IF ev.type = "EV_SW" /\ ev.code = "SW_MICROPHONE_INSERT"
                     THEN Inserted(ev.value) ELSE old.microphone,
      lineout |-> IF ev.type = "EV_SW" /\ ev.code = "SW_LINEOUT_INSERT"
                  THEN Inserted(ev.value) ELSE old.lineout ]

C12_SyncInNormal ==
    (ReadStep(LIBEVDEV_READ_STATUS_SYNC)
     /\ cb.flags = "LIBEVDEV_READ_FLAG_NORMAL") =>
        /\ cb'.flags = "LIBEVDEV_READ_FLAG_SYNC"
        /\ pc' = "cb_loop"
        /\ u' = u
        /\ ports' = ports
        /\ lastEval' = lastEval
        /\ opNotifies' = opNotifies

C12_SyncInSync ==
    (ReadStep(LIBEVDEV_READ_STATUS_SYNC)
     /\ cb.flags = "LIBEVDEV_READ_FLAG_SYNC") =>
        /\ cb'.flags = "LIBEVDEV_READ_FLAG_SYNC"
        /\ pc' = "cb_loop"
        /\ SwitchOf(u') = SwitchAfter(SwitchOf(u), cb'.ev)
        /\ opNotifies' = opNotifies + (IF IsReport(cb'.ev) THEN 1 ELSE 0)

C12_BackToNormal ==
    (/\ cb.flags = "LIBEVDEV_READ_FLAG_SYNC"
     /\ cb'.flags = "LIBEVDEV_READ_FLAG_NORMAL") =>
        /\ cb'.err = -EAGAIN
        /\ pc = "cb_loop" /\ pc' = "cb_loop"

\* C12: resync-required read with the normal flag sets the sync flag and the
\* event that came with it is neither applied nor taken as a report-complete
\* marker; resync-required read with the sync flag leaves the flag and its
\* event is applied as any event is; within a drain the flag goes from sync
\* to normal only on would-block.
C12_ReadModeTransitions ==
    [][C12_SyncInNormal /\ C12_SyncInSync /\ C12_BackToNormal]_vars

C12_Witness ==
    /\ pc = "cb_loop"
    /\ cb.flags = "LIBEVDEV_READ_FLAG_SYNC"
    /\ cb.err = LIBEVDEV_READ_STATUS_SYNC
    /\ cb.nev = 1
    /\ IsReport(cb.ev)
    /\ opNotifies = 0

(* ------------------------ when availability is pushed ----------------- *)
\* the iteration read a report-complete marker that reaches the event code:
\* the read gave an event, and not the one that only announces a resync
AppliedReport ==
    /\ pc = "cb_loop"
    /\ cb'.nev = cb.nev + 1
    /\ ~ (cb.flags = "LIBEVDEV_READ_FLAG_NORMAL"
          /\ cb'.err = LIBEVDEV_READ_STATUS_SYNC)
    /\ cb'.ev.type = "EV_SYN"
    /\ cb'.ev.code = "SYN_REPORT"

InitialSyncStep == pc = "new_sync" /\ pc' = "new_ret"

C13_Step ==
    /\ (AppliedReport \/ InitialSyncStep) =>
          /\ opNotifies' = opNotifies + 1
          /\ lastEval'.sw = SwitchOf(u')
          /\ ports' = ApplyWrites(ports, lastEval'.writes)
    /\ ~ (AppliedReport \/ InitialSyncStep) =>
          /\ opNotifies' \in {opNotifies, 0}
          /\ lastEval' = lastEval
          /\ ports' = ports

C13_Counts ==
    /\ pc \in {"cb_loop", "cb_ret"} => opNotifies <= cb.nev
    /\ pc \in {"start", "find_scandir", "find_loop", "find_free",
               "find_ret", "new_sync", "idle", "done", "crashed"}
         => opNotifies = 0
    /\ pc = "new_ret" => opNotifies = (IF result = "instance" THEN 1 ELSE 0)

\* C13: notify_ports runs once at creation and once for each report-complete
\* marker that reaches the event code, and at no other step: a switch event,
\* an unknown switch code, another event type, would-block, resync-required
\* read with the normal flag and a hard error neither evaluate nor write.
C13_NotifyOnlyAtMarkers == [] C13_Counts /\ [][C13_Step]_vars

C13_Witness ==
    /\ pc = "cb_loop"
    /\ opNotifies = 2
    /\ cb.nev = 5
    /\ cb.ev.type = "EV_SW"
    /\ cb.ev.code = "SW_LID"
    /\ lastEval.sw = SwitchOf(u)

(* ------------------------- switch state frame ------------------------- *)
\* the iteration read an event that reaches the event code
AppliedEvent ==
    /\ pc = "cb_loop"
    /\ cb'.nev = cb.nev + 1
    /\ ~ (cb.flags = "LIBEVDEV_READ_FLAG_NORMAL"
          /\ cb'.err = LIBEVDEV_READ_STATUS_SYNC)

C14_Step ==
    LET ev == cb'.ev
        on == ev.value = 1
        sw == ev.type = "EV_SW"
    IN /\ (AppliedEvent /\ sw /\ ev.code = "SW_HEADPHONE_INSERT") =>
             /\ u'.sw_headphone_insert = on
             /\ u'.sw_microphone_insert = u.sw_microphone_insert
             /\ u'.sw_lineout_insert = u.sw_lineout_insert
       /\ (AppliedEvent /\ sw /\ ev.code = "SW_MICROPHONE_INSERT") =>
             /\ u'.sw_microphone_insert = on
             /\ u'.sw_headphone_insert = u.sw_headphone_insert
             /\ u'.sw_lineout_insert = u.sw_lineout_insert
       /\ (AppliedEvent /\ sw /\ ev.code = "SW_LINEOUT_INSERT") =>
             /\ u'.sw_lineout_insert = on
             /\ u'.sw_headphone_insert = u.sw_headphone_insert
             /\ u'.sw_microphone_insert = u.sw_microphone_insert
       /\ (AppliedEvent /\ (~ sw \/ ev.code \notin SwitchCodes)) =>
             SwitchOf(u') = SwitchOf(u)
       /\ (~ AppliedEvent /\ pc \notin {"start", "new_sync"}) =>
             SwitchOf(u') = SwitchOf(u)

\* C14: an applied switch event for headphone-insert, microphone-insert or
\* lineout-insert sets that boolean to the event's value and leaves the
\* other two; an applied switch event with another code and any applied
\* non-switch event leave all three; once the instance is created no other
\* step changes the switch state.
C14_SwitchStateFrame == [][C14_Step]_vars

C14_Witness ==
    /\ pc = "cb_loop"
    /\ cb.err = LIBEVDEV_READ_STATUS_SUCCESS
    /\ cb.ev = [ type |-> "EV_SW", code |-> "SW_MICROPHONE_INSERT",
                 value |-> 1 ]
    /\ u.sw_microphone_insert
    /\ ~ u.sw_lineout_insert
    /\ u.sw_headphone_insert
    /\ lastEval.sw.microphone = FALSE

(* --------------------------- creation ordering ------------------------ *)
InitialValuesRead == lastEval # NoEval

\* C15 as stated: the initial switch values are read before the readiness
\* callback is registered.
C15_Original == env.io # {} => InitialValuesRead

C15_Order ==
    /\ pc = "new_sync" =>
          /\ u.event # NULL
          /\ env.io = {u.event}
          /\ ~ InitialValuesRead
          /\ ~ cbRan
    /\ pc \in {"start", "find_scandir", "find_loop", "find_free", "find_ret"}
          => (env.io = {} /\ ~ InitialValuesRead)
    /\ (env.io # {} /\ pc # "new_sync") => InitialValuesRead
    /\ pc \in {"cb_loop", "cb_ret"} => InitialValuesRead

C15_SyncStep ==
    pc = "new_sync" =>
        /\ pc' = "new_ret"
        /\ InitialValuesRead'
        /\ env' = env
        /\ cbRan' = cbRan

\* C15: on creation the readiness callback is registered first (io_new) and
\* the initial switch values are read right after it, in the same call of
\* pa_droid_extevdev_new, before control returns to the mainloop and so
\* before evdev_cb can run.
C15_CreationOrdering == [] C15_Order /\ [][C15_SyncStep]_vars

C15_Witness ==
    /\ pc = "new_sync"
    /\ env.io = {u.event}
    /\ u.event = u.evdev_dev
    /\ u.event # NULL
    /\ lastEval = NoEval

(* --------------------------- teardown ordering ------------------------ *)
OpNames(ops) == [ k \in 1..Len(ops) |-> ops[k].op ]

TeardownOrder == << "io_free", "libevdev_free", "close", "pa_xfree" >>

\* the environment after the first k calls of a teardown started now
DuringFree(k) == RunFree(env, SubSeq(FreeOps(u), 1, k))

C16_BeforeDestroy ==
    pc = "idle" =>
      /\ OpNames(FreeOps(u)) = TeardownOrder
      /\ FreeOps(u)[1].fd = u.event
      /\ FreeOps(u)[2].fd = u.evdev_dev
      /\ FreeOps(u)[3].fd = u.evdev_dev
      /\ \A k \in 0..Len(FreeOps(u)) :
           /\ DuringFree(k).io \subseteq DuringFree(k).fds
           /\ DuringFree(k).ctxs \subseteq DuringFree(k).fds
           /\ DuringFree(k).faults = {}

C16_AfterDestroy ==
    (pc = "done" /\ result = "instance") =>
      /\ OpNames(freeLog) = TeardownOrder
      /\ freeLog[1].fd = u.event
      /\ freeLog[2].fd = u.evdev_dev
      /\ freeLog[3].fd = u.evdev_dev
      /\ env.faults = {}
      /\ inst = "freed"

\* C16: destroying an active monitor unregisters the readiness callback,
\* then releases the decoding context, then closes the descriptor, each
\* once; at no point of the teardown is the callback registered on a closed
\* descriptor, and the descriptor closed is the one of the decoding context.
C16_TeardownOrdering == C16_BeforeDestroy /\ C16_AfterDestroy

C16_Witness ==
    /\ pc = "done"
    /\ result = "instance"
    /\ cbRan
    /\ OpNames(freeLog) = TeardownOrder
    /\ freeLog[3].fd = u.evdev_dev

(* ------------------------- lifecycle resources ------------------------ *)
OutsideCreateDestroy == pc \in {"start", "idle", "cb_loop", "cb_ret", "done"}

\* C17: outside pa_droid_extevdev_new and pa_droid_extevdev_free the monitor
\* has a registered readiness callback exactly when it holds an open device;
\* there is never more than one of either; after any drains, also ones that
\* broke on a hard error, and the destroy, there is none of either.
C17_LifecycleResources ==
    /\ Cardinality(env.io) <= 1
    /\ Cardinality(env.fds) <= 1
    /\ Cardinality(env.ctxs) <= 1
    /\ OutsideCreateDestroy =>
          /\ (env.io # {}) <=> (env.fds # {})
          /\ env.ctxs = env.fds
          /\ env.io = env.fds
    /\ pc \in {"idle", "cb_loop", "cb_ret"} =>
          /\ env.io = {u.event}
          /\ env.fds = {u.evdev_dev}
          /\ u.event # NULL /\ u.evdev_dev # NULL
    /\ pc \in {"start", "done"} =>
          /\ env.io = {}
          /\ env.fds = {}
          /\ env.ctxs = {}

C17_Witness ==
    /\ pc = "done"
    /\ result = "instance"
    /\ prevAbort
    /\ env.io = {}
    /\ env.fds = {}
    /\ Len(freeLog) = 4

(* ------------------------- read flag per wake-up ---------------------- *)
C18_EntryStep ==
    (pc = "idle" /\ pc' = "cb_loop") =>
        /\ cb'.flags = "LIBEVDEV_READ_FLAG_NORMAL"
        /\ cb'.nev = 0

C18_FirstRead ==
    (pc = "cb_loop" /\ cb.nev = 0 /\ cb.ev = NoEvent
     /\ cb.err # LIBEVDEV_READ_STATUS_SYNC) =>
        cb.flags = "LIBEVDEV_READ_FLAG_NORMAL"

\* C18: every call of evdev_cb starts reading with the normal flag, however
\* the drain before it ended, also when that drain broke on a hard error
\* while the sync flag was set.
C18_ReadModePerWakeup == [] C18_FirstRead /\ [][C18_EntryStep]_vars

C18_Witness ==
    /\ pc = "cb_loop"
    /\ prevAbort
    /\ cb.nev = 0
    /\ cb.err = 0
    /\ cb.ev = NoEvent
    /\ cb.flags = "LIBEVDEV_READ_FLAG_NORMAL"

(* ----------------------- registry against switch state ---------------- *)
\* no switch event has changed the state the last notify_ports call saw
NotifiedCurrentState == lastEval # NoEval /\ lastEval.sw = SwitchOf(u)

C19_Consistent ==
    NotifiedCurrentState =>
      LET jack == u.sw_headphone_insert \/ u.sw_lineout_insert
          mic == u.sw_microphone_insert
      IN /\ \A j \in 1..Len(headphone_ports) :
              LET v == ports[headphone_ports[j]]
              IN v # "absent" =>
                   /\ v \in {YES, NO}
                   /\ (v = YES) <=> (jack /\ ~ mic)
         /\ \A j \in 1..Len(headset_ports) :
              LET v == ports[headset_ports[j]]
              IN v # "absent" =>
                   /\ v \in {YES, NO}
                   /\ (v = YES) <=> (jack /\ mic)

C19_PresenceStep ==
    \A n \in RegistryNames : (ports'[n] = "absent") <=> (ports[n] = "absent")

\* C19: with this code the only writer of the named ports, whenever the
\* switch state is the one the most recent notify_ports call saw, every
\* headphone-class port of the card is available iff (headphone or lineout)
\* and not microphone, and every headset-class port iff (headphone or
\* lineout) and microphone; a name the card lacks is skipped, stays absent
\* and does not stop the writes to the names after it.
C19_RegistryConsistency == [] C19_Consistent /\ [][C19_PresenceStep]_vars

C19_Witness ==
    /\ pc = "idle"
    /\ cbRan
    /\ NotifiedCurrentState
    /\ ports["output-wired_headphone"] = "absent"
    /\ ports["output-wired_headset"] = "absent"
    /\ ports["input-wired_headset"] = YES
    /\ u.sw_lineout_insert
    /\ ~ u.sw_headphone_insert

(* ---------------------- registry after each write --------------------- *)
BothAvailable(reg) ==
    /\ \E j \in 1..Len(headphone_ports) : reg[headphone_ports[j]] = YES
    /\ \E j \in 1..Len(headset_ports) : reg[headset_ports[j]] = YES

\* a step in which notify_ports ran; its writes are lastEval'.writes
NotifyStep == opNotifies' = opNotifies + 1

\* the registry after the first k writes of the call made in this step
AfterWrite(k) == ApplyWrites(ports, SubSeq(lastEval'.writes, 1, k))

\* C20 as stated: after every single write no headphone-class port and
\* headset-class port are both available.
C20_Original ==
    [][NotifyStep =>
         \A k \in 1..Len(lastEval'.writes) : ~ BothAvailable(AfterWrite(k))]_vars

C20_WriteStep ==
    NotifyStep =>
      /\ AfterWrite(Len(lastEval'.writes)) = ports'
      /\ \A k \in 1..Len(lastEval'.writes) :
           BothAvailable(AfterWrite(k)) =>
             /\ lastEval'.headphone = YES
             /\ lastEval'.headset = NO
             /\ \A j \in 1..Len(headset_ports) :
                  AfterWrite(k)[headset_ports[j]] = YES =>
                    /\ ports[headset_ports[j]] = YES
                    /\ \E m \in (k + 1)..Len(lastEval'.writes) :
                         /\ lastEval'.writes[m].port = headset_ports[j]
                         /\ lastEval'.writes[m].available = NO

\* C20: after every complete notify_ports call no headphone-class port and
\* headset-class port are both available.  After a single write inside a
\* call both can be, but only when the call found the headphone available:
\* the headphone port is written first, and the headset ports still marked
\* available by the call before are set unavailable by the writes that
\* follow.
C20_ExclusionPerCall == [] ~ BothAvailable(ports) /\ [][C20_WriteStep]_vars

C20_Witness ==
    /\ pc = "cb_loop"
    /\ opNotifies = 1
    /\ Len(lastEval.writes) = 3
    /\ lastEval.headphone = YES
    /\ lastEval.sw = [ headphone |-> TRUE, microphone |-> FALSE,
                       lineout |-> FALSE ]
    /\ ports["output-wired_headphone"] = YES
    /\ ports["output-wired_headset"] = NO
    /\ ports["input-wired_headset"] = NO
    /\ cb.ev.code = "SYN_REPORT"
====
